---- MODULE Spec2Model ----
(***************************************************************************)
(* A model of src/trunk/src/common/log.c: the list of log handlers         *)
(* (logfiles), the syslog reference count, and the operations that add,    *)
(* remove, rotate and write to the handlers.                               *)
(*                                                                         *)
(* Every public function of log.c is one action.  The environment's       *)
(* answers (does fopen succeed, does fputs/fflush/fclose report EOF) are   *)
(* inputs of the action, drawn with \E.  A logfile_t is a record; its `id` *)
(* stands for the address tor_malloc_zero returned, so that two handlers   *)
(* with equal fields remain two handlers.  A FILE* is an index into        *)
(* `streams`; NULL is 0.                                                   *)
(*                                                                         *)
(* The build modelled has HAVE_SYSLOG_H.  ftello on a stream just opened   *)
(* for append is the length of the file; the fputs of the banner in        *)
(* log_tor_version, whose result the code ignores, succeeds.               *)
(*                                                                         *)
(* Spec        the public functions called one after the other from one    *)
(*             thread, with callbacks that return without calling back.    *)
(* SpecFiles   the file handlers, with log files emptied from outside      *)
(*             between the calls.                                          *)
(* SpecPure    format_msg on the bytes of the buffer, parse_log_level and  *)
(*             log_level_to_string, each applied to one input.             *)
(* SpecConc    logv followed step by step while other execution contexts   *)
(*             register, rotate and shut down.                             *)
(* SpecReentry logv followed step by step in one thread, with callbacks    *)
(*             that call back into log.c.                                  *)
(***************************************************************************)
EXTENDS Integers, Sequences, FiniteSets, TLC

VARIABLES
  logfiles,      \* the linked list `logfiles`, head first
  syslog_count,  \* static int syslog_count
  syslog_open,   \* whether openlog() is in effect (no closelog() since)
  streams,       \* every FILE the process has had: path, owner, fclose count
  has_data,      \* per path: does the file on disk hold any bytes
  allocs,        \* every logfile_t ever allocated, by id: kind and syslog decrements
  last,          \* the last call: name, return value, and the library calls it made
  mark,          \* history: the handlers present at the last mark_logs_temp, and
                 \* those registered since, while only registrations followed it
  frames,        \* the logv calls in progress when logv is followed step by
                 \* step, innermost last: severity, the pointer lf, where it is
  fault          \* what such a logv has done that C leaves undefined

vars ==
  <<logfiles, syslog_count, syslog_open, streams, has_data, allocs, last, mark,
    frames, fault>>

-----------------------------------------------------------------------------
(* Severities: the syslog priorities that log.h gives the names           *)
(* sev_to_string switches on; a smaller number is more severe.            *)
LOG_ERR == 3
LOG_WARN == 4
LOG_NOTICE == 5
LOG_INFO == 6
LOG_DEBUG == 7

Severities == LOG_ERR..LOG_DEBUG

NULL == 0
STDOUT == 1

(* Bounds of the model.                                                    *)
MaxAdds == 3     \* handlers ever allocated
MaxOpens == 4    \* successful fopen calls

(* The inputs the callers pass.  A band is <<loglevelMin, loglevelMax>>.   *)
(* Stream handlers take either band: the first accepts warn..info, the     *)
(* second is inverted (loglevel below max_loglevel); a NULL stream comes   *)
(* with the first.  File, syslog and callback handlers take the first.     *)
(* add_temp_log brings its own band, err..info.                            *)
Bands == {<<LOG_INFO, LOG_WARN>>, <<LOG_WARN, LOG_INFO>>}
SinkBands == {<<LOG_INFO, LOG_WARN>>}
StreamArgs ==
  {<<b, STDOUT>> : b \in Bands} \cup {<<b, NULL>> : b \in SinkBands}
Paths == {"tor.log"}
Callbacks == {1}
NoFunc == ""            \* the NULL funcname _log passes
FuncNames == {"fn"}
Formats == {"msg"}

-----------------------------------------------------------------------------
(* Library calls recorded in `last.calls`.                                 *)
NoBuf == [prefix |-> <<>>, fn |-> "", text |-> ""]

Call(name, id, file, ok, arg) ==
  [call |-> name, id |-> id, file |-> file, ok |-> ok, arg |-> arg]

CallsNamed(calls, name) == SelectSeq(calls, LAMBDA c : c.call = name)

Ids(L) == {L[i].id : i \in 1..Len(L)}


(* The state the handlers read and write, as one record, so that a handler *)
(* is an operator from world to world; `calls` collects the library calls  *)
(* of the operation in progress.                                           *)
World ==
  [logfiles |-> logfiles, syslog_count |-> syslog_count,
   syslog_open |-> syslog_open, streams |-> streams, has_data |-> has_data,
   allocs |-> allocs, calls |-> <<>>]

Emit(W, c) == [W EXCEPT !.calls = Append(@, c)]

(* tor_gettimeofday: the clock advances between any two reads of one       *)
(* operation; the k-th read returns k.                                     *)
tor_gettimeofday(W) ==
  1 + Len(CallsNamed(W.calls, "format_msg")) + Len(CallsNamed(W.calls, "banner"))

(* tor_malloc_zero(sizeof(logfile_t)): a fresh address, all fields zero.   *)
tor_malloc_zero(W) ==
  [id |-> Len(W.allocs) + 1, filename |-> "", file |-> NULL,
   needs_close |-> FALSE, loglevel |-> 0, max_loglevel |-> 0,
   is_temporary |-> FALSE, is_syslog |-> FALSE, callback |-> NULL]

Allocated(W, lf) ==
  [W EXCEPT !.allocs = Append(@, [is_syslog |-> lf.is_syslog, decs |-> 0])]

-----------------------------------------------------------------------------
(* sev_to_string, log.c:36-45.                                             *)
sev_to_string(severity) ==
  CASE severity = LOG_DEBUG  -> "debug"
    [] severity = LOG_INFO   -> "info"
    [] severity = LOG_NOTICE -> "notice"
    [] severity = LOG_WARN   -> "warn"
    [] severity = LOG_ERR    -> "err"
    [] OTHER                 -> "UNKNOWN"

(* _log_prefix, log.c:57-76: the timestamp and the bracketed severity.     *)
_log_prefix(now, severity) == <<now, sev_to_string(severity)>>

(* ftello(lf->file) == 0 on a stream opened for append.                    *)
ftello_is_zero(W, file) == ~W.has_data[W.streams[file].path]

(* A log_tor_version that does not look at `reset`.                        *)
log_tor_version_any_time(W, lf, reset) ==
  IF ~lf.needs_close THEN W
  ELSE IF lf.is_temporary THEN W
  ELSE LET is_new == ftello_is_zero(W, lf.file)
           buf == [prefix |-> _log_prefix(tor_gettimeofday(W), LOG_NOTICE),
                   fn |-> "",
                   text |-> IF is_new THEN "opening new log file"
                                      ELSE "opening log file"]
           path == W.streams[lf.file].path
       IN [Emit(W, Call("banner", lf.id, lf.file, TRUE, buf))
             EXCEPT !.has_data[path] = TRUE]

(* log_tor_version, log.c:80-105.                                          *)
log_tor_version(W, lf, reset) ==
  IF ~lf.needs_close THEN W
  ELSE IF lf.is_temporary THEN W
  ELSE LET is_new == ftello_is_zero(W, lf.file) IN
    IF reset /\ ~is_new THEN W
    ELSE LET buf == [prefix |-> _log_prefix(tor_gettimeofday(W), LOG_NOTICE),
                     fn |-> "",
                     text |-> IF is_new THEN "opening new log file"
                                        ELSE "opening log file"]
             path == W.streams[lf.file].path
         IN [Emit(W, Call("banner", lf.id, lf.file, TRUE, buf))
               EXCEPT !.has_data[path] = TRUE]

(* format_msg, log.c:112-143: the rendered record; end_of_prefix is the    *)
(* record without its prefix.                                              *)
format_msg(now, severity, funcname, format) ==
  [prefix |-> _log_prefix(now, severity),
   fn |-> IF funcname # NoFunc THEN funcname ELSE "",
   text |-> format]

end_of_prefix(buf) == [buf EXCEPT !.prefix = <<>>]

-----------------------------------------------------------------------------
(* delete_log, log.c:249-261: unlink victim (it is in the list) and free.  *)
RECURSIVE unlink(_, _)
unlink(L, victim) ==
  IF L = <<>> THEN L
  ELSE IF Head(L).id = victim THEN Tail(L)
  ELSE <<Head(L)>> \o unlink(Tail(L), victim)

(* An unlink that treats every victim as the head of the list.             *)
RECURSIVE drop_through(_, _)
drop_through(L, victim) ==
  IF L = <<>> THEN L
  ELSE IF Head(L).id = victim THEN Tail(L)
  ELSE drop_through(Tail(L), victim)

delete_log_as_head(W, victim) ==
  Emit([W EXCEPT !.logfiles = drop_through(@, victim.id)],
       Call("free", victim.id, victim.file, TRUE, NoBuf))

delete_log(W, victim) ==
  Emit([W EXCEPT !.logfiles = unlink(@, victim.id)],
       Call("free", victim.id, victim.file, TRUE, NoBuf))

(* fclose(file): the stream is gone whatever fclose returns.               *)
fclose(W, id, file, ok) ==
  Emit([W EXCEPT !.streams[file].closes = @ + 1],
       Call("fclose", id, file, ok, NoBuf))

(* A close_log that closes whatever stream the handler holds.              *)
close_log_any_file(W, victim) ==
  IF victim.file # NULL
    THEN fclose(W, victim.id, victim.file, TRUE)
  ELSE IF victim.is_syslog
    THEN LET n == W.syslog_count - 1
             W1 == [W EXCEPT !.syslog_count = n,
                             !.allocs[victim.id].decs = @ + 1]
         IN IF n = 0
              THEN Emit([W1 EXCEPT !.syslog_open = FALSE],
                        Call("closelog", victim.id, NULL, TRUE, NoBuf))
              ELSE W1
  ELSE W

(* A close_log that forgets the syslog reference.                          *)
close_log_files_only(W, victim) ==
  IF victim.needs_close /\ victim.file # NULL
    THEN fclose(W, victim.id, victim.file, TRUE)
    ELSE W

(* close_log, log.c:263-274.                                               *)
close_log(W, victim) ==
  IF victim.needs_close /\ victim.file # NULL
    THEN fclose(W, victim.id, victim.file, TRUE)
  ELSE IF victim.is_syslog
    THEN LET n == W.syslog_count - 1
             W1 == [W EXCEPT !.syslog_count = n,
                             !.allocs[victim.id].decs = @ + 1]
         IN IF n = 0
              THEN Emit([W1 EXCEPT !.syslog_open = FALSE],
                        Call("closelog", victim.id, NULL, TRUE, NoBuf))
              ELSE W1
  ELSE W

(* reset_log, log.c:276-287, on the handler at position i.  `outcome` is   *)
(* the environment's answer: "ok", "fclose_eof" or "fopen_null".  The      *)
(* result is the world and the return value.                               *)
(* A reset_log that reports success although fopen returned NULL.          *)
reset_log_ignores_fopen(W, i, outcome) ==
  LET lf == W.logfiles[i] IN
  IF lf.needs_close
    THEN LET W1 == fclose(W, lf.id, lf.file, outcome # "fclose_eof") IN
      IF outcome = "fclose_eof" THEN [W |-> W1, r |-> -1]
      ELSE IF outcome = "fopen_null"
        THEN [W |-> Emit([W1 EXCEPT !.logfiles[i].file = NULL],
                         Call("fopen", lf.id, NULL, FALSE, NoBuf)),
              r |-> 0]
      ELSE LET f == Len(W1.streams) + 1
               W2 == [W1 EXCEPT !.logfiles[i].file = f,
                                !.streams = Append(@, [path |-> lf.filename,
                                                       mode |-> "a",
                                                       owner |-> lf.id,
                                                       closes |-> 0])]
               W3 == Emit(W2, Call("fopen", lf.id, f, TRUE, NoBuf))
           IN [W |-> log_tor_version(W3, W3.logfiles[i], TRUE), r |-> 0]
    ELSE [W |-> W, r |-> 0]

reset_log(W, i, outcome) ==
  LET lf == W.logfiles[i] IN
  IF lf.needs_close
    THEN LET W1 == fclose(W, lf.id, lf.file, outcome # "fclose_eof") IN
      IF outcome = "fclose_eof" THEN [W |-> W1, r |-> -1]
      ELSE IF outcome = "fopen_null"
        THEN [W |-> Emit([W1 EXCEPT !.logfiles[i].file = NULL],
                         Call("fopen", lf.id, NULL, FALSE, NoBuf)),
              r |-> -1]
      ELSE LET f == Len(W1.streams) + 1
               W2 == [W1 EXCEPT !.logfiles[i].file = f,
                                !.streams = Append(@, [path |-> lf.filename,
                                                       mode |-> "a",
                                                       owner |-> lf.id,
                                                       closes |-> 0])]
               W3 == Emit(W2, Call("fopen", lf.id, f, TRUE, NoBuf))
           IN [W |-> log_tor_version(W3, W3.logfiles[i], TRUE), r |-> 0]
    ELSE [W |-> W, r |-> 0]

(* reset_logs, log.c:229-242: the loop from position i on.                 *)
RECURSIVE reset_logs_from(_, _, _)
reset_logs_from(W, i, outcomes) ==
  IF i > Len(W.logfiles) THEN W
  ELSE LET lf == W.logfiles[i]
           res == reset_log(W, i, outcomes[lf.id])
       IN IF res.r # 0
            THEN reset_logs_from(delete_log(res.W, res.W.logfiles[i]), i, outcomes)
            ELSE reset_logs_from(res.W, i + 1, outcomes)

(* A reset_logs that leaves in the list the handlers it could not reopen.  *)
RECURSIVE reset_logs_keeping_from(_, _, _)
reset_logs_keeping_from(W, i, outcomes) ==
  IF i > Len(W.logfiles) THEN W
  ELSE reset_logs_keeping_from(reset_log(W, i, outcomes[W.logfiles[i].id]).W,
                               i + 1, outcomes)

reset_logs_keeps_failed(W, outcomes) == reset_logs_keeping_from(W, 1, outcomes)

reset_logs(W, outcomes) == reset_logs_from(W, 1, outcomes)

(* close_logs, log.c:216-226.                                              *)
RECURSIVE close_logs(_)
close_logs(W) ==
  IF W.logfiles = <<>> THEN W
  ELSE LET victim == Head(W.logfiles)
           W1 == close_log([W EXCEPT !.logfiles = Tail(@)], victim)
       IN close_logs(Emit(W1, Call("free", victim.id, victim.file, TRUE, NoBuf)))

(* close_temp_logs, log.c:326-340: p walks the links; position i.          *)
RECURSIVE close_temp_logs_from(_, _)
close_temp_logs_from(W, i) ==
  IF i > Len(W.logfiles) THEN W
  ELSE LET lf == W.logfiles[i] IN
    IF lf.is_temporary
      THEN LET W1 == close_log([W EXCEPT !.logfiles = unlink(@, lf.id)], lf)
           IN close_temp_logs_from(
                Emit(W1, Call("free", lf.id, lf.file, TRUE, NoBuf)), i)
      ELSE close_temp_logs_from(W, i + 1)

(* A close_temp_logs whose cursor steps over the handler that follows a    *)
(* removed one.                                                            *)
RECURSIVE close_temp_logs_skipping(_, _)
close_temp_logs_skipping(W, i) ==
  IF i > Len(W.logfiles) THEN W
  ELSE LET lf == W.logfiles[i] IN
    IF lf.is_temporary
      THEN LET W1 == close_log([W EXCEPT !.logfiles = unlink(@, lf.id)], lf)
           IN close_temp_logs_skipping(
                Emit(W1, Call("free", lf.id, lf.file, TRUE, NoBuf)), i + 1)
      ELSE close_temp_logs_skipping(W, i + 1)

close_temp_logs_skips(W) == close_temp_logs_skipping(W, 1)

close_temp_logs(W) == close_temp_logs_from(W, 1)

(* mark_logs_temp, log.c:343-348.                                          *)
(* A mark_logs_temp that flags the head of the list only.                  *)
mark_logs_temp_head(W) ==
  [W EXCEPT !.logfiles =
     [i \in 1..Len(@) |-> IF i = 1 THEN [@[i] EXCEPT !.is_temporary = TRUE]
                                    ELSE @[i]]]

mark_logs_temp(W) ==
  [W EXCEPT !.logfiles =
     [i \in 1..Len(@) |-> [@[i] EXCEPT !.is_temporary = TRUE]]]

-----------------------------------------------------------------------------
(* logv, log.c:149-195, from position i (the cursor lf) on.  `st` holds    *)
(* the locals formatted and buf; `writes_fail` is the set of handlers      *)
(* whose fputs or fflush reports EOF.                                      *)
(* A filter that forgets the upper end of the band.                        *)
Matches_no_max(severity, lf) == ~(severity > lf.loglevel)

Matches(severity, lf) ==
  ~(severity > lf.loglevel \/ severity < lf.max_loglevel)

HasTarget(lf) == lf.file # NULL \/ lf.is_syslog \/ lf.callback # NULL

(* A formatter call that does not set `formatted`.                         *)
Formatted_every_time(W, st, severity, funcname, format) ==
  LET buf == format_msg(tor_gettimeofday(W), severity, funcname, format)
  IN [W |-> Emit(W, Call("format_msg", NULL, NULL, TRUE, buf)),
      st |-> [formatted |-> FALSE, buf |-> buf]]

Formatted(W, st, severity, funcname, format) ==
  IF ~st.formatted
    THEN LET buf == format_msg(tor_gettimeofday(W), severity, funcname, format)
         IN [W |-> Emit(W, Call("format_msg", NULL, NULL, TRUE, buf)),
             st |-> [formatted |-> TRUE, buf |-> buf]]
    ELSE [W |-> W, st |-> st]

Written(W, lf) ==
  LET path == W.streams[lf.file].path IN
  IF path \in Paths THEN [W EXCEPT !.has_data[path] = TRUE] ELSE W

RECURSIVE logv_from(_, _, _, _, _, _, _)
logv_from(W, i, st, severity, funcname, format, writes_fail) ==
  IF i > Len(W.logfiles) THEN W
  ELSE LET lf == W.logfiles[i] IN
    IF ~Matches(severity, lf)
      THEN logv_from(W, i + 1, st, severity, funcname, format, writes_fail)
    ELSE IF ~HasTarget(lf)
      THEN logv_from(W, i + 1, st, severity, funcname, format, writes_fail)
    ELSE LET F == Formatted(W, st, severity, funcname, format) IN
      IF lf.is_syslog
        THEN logv_from(Emit(F.W, Call("syslog", lf.id, NULL, TRUE,
                                      end_of_prefix(F.st.buf))),
                       i + 1, F.st, severity, funcname, format, writes_fail)
      ELSE IF lf.callback # NULL
        THEN logv_from(Emit(F.W, Call("callback", lf.id, NULL, TRUE,
                                      end_of_prefix(F.st.buf))),
                       i + 1, F.st, severity, funcname, format, writes_fail)
      ELSE IF lf.id \in writes_fail
        THEN logv_from(delete_log(Emit(F.W, Call("fputs", lf.id, lf.file,
                                                 FALSE, F.st.buf)), lf),
                       i, F.st, severity, funcname, format, writes_fail)
      ELSE logv_from(Written(Emit(F.W, Call("fputs", lf.id, lf.file, TRUE,
                                            F.st.buf)), lf),
                     i + 1, F.st, severity, funcname, format, writes_fail)

(* A logv that formats before it looks at any handler.                     *)
logv_formats_first(W, severity, funcname, format, writes_fail) ==
  LET F == Formatted(W, [formatted |-> FALSE, buf |-> NoBuf],
                     severity, funcname, format)
  IN logv_from(F.W, 1, F.st, severity, funcname, format, writes_fail)

logv(W, severity, funcname, format, writes_fail) ==
  logv_from(W, 1, [formatted |-> FALSE, buf |-> NoBuf],
            severity, funcname, format, writes_fail)

-----------------------------------------------------------------------------
(* The registration functions.                                             *)

(* add_stream_log, log.c:291-301.                                          *)
add_stream_log(W, loglevelMin, loglevelMax, name, stream) ==
  LET lf == [tor_malloc_zero(W) EXCEPT !.filename = name,
                                       !.loglevel = loglevelMin,
                                       !.max_loglevel = loglevelMax,
                                       !.file = stream]
  IN [Allocated(W, lf) EXCEPT !.logfiles = <<lf>> \o @]

(* add_temp_log, log.c:306-310.                                            *)
add_temp_log(W) ==
  [add_stream_log(W, LOG_INFO, LOG_ERR, "<temp>", STDOUT)
     EXCEPT !.logfiles[1].is_temporary = TRUE]

(* An add_callback_log that links the handler at the tail.                 *)
add_callback_log_appends(W, loglevelMin, loglevelMax, cb) ==
  LET lf == [tor_malloc_zero(W) EXCEPT !.loglevel = loglevelMin,
                                       !.max_loglevel = loglevelMax,
                                       !.filename = "<callback>",
                                       !.callback = cb]
  IN [Allocated(W, lf) EXCEPT !.logfiles = @ \o <<lf>>]

(* add_callback_log, log.c:312-323.                                        *)
add_callback_log(W, loglevelMin, loglevelMax, cb) ==
  LET lf == [tor_malloc_zero(W) EXCEPT !.loglevel = loglevelMin,
                                       !.max_loglevel = loglevelMax,
                                       !.filename = "<callback>",
                                       !.callback = cb]
  IN [Allocated(W, lf) EXCEPT !.logfiles = <<lf>> \o @]

(* add_file_log, log.c:355-364.  `opens` is whether fopen succeeds.  The   *)
(* result is the world and the return value.                               *)
(* An add_file_log that registers the handler before it tests f.           *)
add_file_log_registers_first(W, loglevelMin, loglevelMax, filename, opens) ==
  IF ~opens
    THEN [W |-> add_stream_log(Emit(W, Call("fopen", NULL, NULL, FALSE, NoBuf)),
                               loglevelMin, loglevelMax, filename, NULL),
          r |-> -1]
    ELSE LET f == Len(W.streams) + 1
             W1 == Emit([W EXCEPT !.streams =
                           Append(@, [path |-> filename, mode |-> "a",
                                      owner |-> Len(W.allocs) + 1,
                                      closes |-> 0])],
                        Call("fopen", NULL, f, TRUE, NoBuf))
             W2 == add_stream_log(W1, loglevelMin, loglevelMax, filename, f)
             W3 == [W2 EXCEPT !.logfiles[1].needs_close = TRUE]
         IN [W |-> log_tor_version(W3, W3.logfiles[1], FALSE), r |-> 0]

add_file_log(W, loglevelMin, loglevelMax, filename, opens) ==
  IF ~opens
    THEN [W |-> Emit(W, Call("fopen", NULL, NULL, FALSE, NoBuf)), r |-> -1]
    ELSE LET f == Len(W.streams) + 1
             W1 == Emit([W EXCEPT !.streams =
                           Append(@, [path |-> filename, mode |-> "a",
                                      owner |-> Len(W.allocs) + 1,
                                      closes |-> 0])],
                        Call("fopen", NULL, f, TRUE, NoBuf))
             W2 == add_stream_log(W1, loglevelMin, loglevelMax, filename, f)
             W3 == [W2 EXCEPT !.logfiles[1].needs_close = TRUE]
         IN [W |-> log_tor_version(W3, W3.logfiles[1], FALSE), r |-> 0]

(* An add_syslog_log that counts only the handler that opens the facility. *)
add_syslog_log_counts_first(W, loglevelMin, loglevelMax) ==
  LET W1 == IF W.syslog_count = 0
              THEN Emit([W EXCEPT !.syslog_open = TRUE, !.syslog_count = @ + 1],
                        Call("openlog", NULL, NULL, TRUE, NoBuf))
              ELSE W
      lf == [tor_malloc_zero(W1) EXCEPT !.loglevel = loglevelMin,
                                        !.filename = "<syslog>",
                                        !.max_loglevel = loglevelMax,
                                        !.is_syslog = TRUE]
  IN [Allocated(W1, lf) EXCEPT !.logfiles = <<lf>> \o @]

(* add_syslog_log, log.c:370-385.                                          *)
add_syslog_log(W, loglevelMin, loglevelMax) ==
  LET W1 == IF W.syslog_count = 0
              THEN Emit([W EXCEPT !.syslog_open = TRUE],
                        Call("openlog", NULL, NULL, TRUE, NoBuf))
              ELSE W
      W2 == [W1 EXCEPT !.syslog_count = @ + 1]
      lf == [tor_malloc_zero(W2) EXCEPT !.loglevel = loglevelMin,
                                        !.filename = "<syslog>",
                                        !.max_loglevel = loglevelMax,
                                        !.is_syslog = TRUE]
  IN [Allocated(W2, lf) EXCEPT !.logfiles = <<lf>> \o @]

(* get_min_log_level, log.c:409-418: min starts at LOG_ERR and is raised   *)
(* to every larger loglevel met on the way down the list.                  *)
RECURSIVE get_min_from(_, _)
get_min_from(L, min) ==
  IF L = <<>> THEN min
  ELSE get_min_from(Tail(L), IF Head(L).loglevel > min THEN Head(L).loglevel
                                                        ELSE min)

(* A get_min_log_level that keeps the smaller of the two.                  *)
RECURSIVE get_smallest_from(_, _)
get_smallest_from(L, min) ==
  IF L = <<>> THEN min
  ELSE get_smallest_from(Tail(L), IF Head(L).loglevel < min THEN Head(L).loglevel
                                                             ELSE min)

get_min_log_level_keeps_smaller(W) == get_smallest_from(W.logfiles, LOG_ERR)

get_min_log_level(W) == get_min_from(W.logfiles, LOG_ERR)

-----------------------------------------------------------------------------
(* The state machine.                                                      *)
NoMark == [phase |-> "none", at |-> {}, added |-> {}, added_temp |-> {}]

Init ==
  /\ logfiles = <<>>
  /\ syslog_count = 0
  /\ syslog_open = FALSE
  /\ streams = <<[path |-> "<stdout>", mode |-> "w", owner |-> NULL, closes |-> 0]>>
  /\ has_data = [p \in Paths |-> FALSE]
  /\ allocs = <<>>
  /\ last = [op |-> "init", ret |-> 0, severity |-> 0, calls |-> <<>>]
  /\ mark = NoMark
  /\ frames = <<>>
  /\ fault = {}

Registrations ==
  {"add_stream_log", "add_file_log", "add_callback_log", "add_syslog_log"}

Marked(W, op) ==
  IF op = "mark_logs_temp"
    THEN [phase |-> "marked", at |-> Ids(W.logfiles), added |-> {},
          added_temp |-> {}]
  ELSE IF mark.phase = "marked" /\ op \in Registrations
    THEN [mark EXCEPT !.added = @ \cup (Ids(W.logfiles) \ Ids(logfiles))]
  ELSE IF mark.phase = "marked" /\ op = "add_temp_log"
    THEN [mark EXCEPT !.added_temp = @ \cup (Ids(W.logfiles) \ Ids(logfiles))]
  ELSE IF mark.phase = "marked" /\ op = "close_temp_logs"
    THEN [mark EXCEPT !.phase = "closed"]
  ELSE NoMark

Returns(W, op, ret, severity) ==
  /\ logfiles' = W.logfiles
  /\ syslog_count' = W.syslog_count
  /\ syslog_open' = W.syslog_open
  /\ streams' = W.streams
  /\ has_data' = W.has_data
  /\ allocs' = W.allocs
  /\ last' = [op |-> op, ret |-> ret, severity |-> severity, calls |-> W.calls]
  /\ mark' = Marked(W, op)
  /\ UNCHANGED <<frames, fault>>

CanAdd == Len(allocs) < MaxAdds
Opens == Len(streams) - 1
Owned(L) == {L[i].id : i \in {j \in 1..Len(L) : L[j].needs_close}}
FileSinks(L) ==
  {L[i].id : i \in {j \in 1..Len(L) :
      L[j].file # NULL /\ ~L[j].is_syslog /\ L[j].callback = NULL}}
ResetOutcomes == {"ok", "fclose_eof", "fopen_null"}
OutcomeOf(o, id) == IF id \in DOMAIN o THEN o[id] ELSE "ok"

Call_add_stream_log ==
  /\ CanAdd
  /\ \E arg \in StreamArgs :
       Returns(add_stream_log(World, arg[1][1], arg[1][2], "<stream>", arg[2]),
               "add_stream_log", 0, 0)

Call_add_temp_log ==
  /\ CanAdd
  /\ Returns(add_temp_log(World), "add_temp_log", 0, 0)

Call_add_callback_log ==
  /\ CanAdd
  /\ \E band \in SinkBands, cb \in Callbacks :
       Returns(add_callback_log(World, band[1], band[2], cb),
               "add_callback_log", 0, 0)

Call_add_file_log ==
  /\ CanAdd
  /\ \E band \in SinkBands, filename \in Paths, opens \in BOOLEAN :
       /\ opens => Opens < MaxOpens
       /\ LET res == add_file_log(World, band[1], band[2], filename, opens)
          IN Returns(res.W, "add_file_log", res.r, 0)

Call_add_syslog_log ==
  /\ CanAdd
  /\ \E band \in SinkBands :
       Returns(add_syslog_log(World, band[1], band[2]), "add_syslog_log", 0, 0)

Call__log ==
  \E severity \in Severities, format \in Formats,
     writes_fail \in SUBSET FileSinks(logfiles) :
       Returns(logv(World, severity, NoFunc, format, writes_fail),
               "_log", 0, severity)

Call__log_fn ==
  \E severity \in Severities, fn \in FuncNames, format \in Formats,
     writes_fail \in SUBSET FileSinks(logfiles) :
       Returns(logv(World, severity, fn, format, writes_fail),
               "_log_fn", 0, severity)

Call_close_logs == Returns(close_logs(World), "close_logs", 0, 0)

Call_reset_logs ==
  \E o \in [Owned(logfiles) -> ResetOutcomes] :
    /\ Opens + Cardinality({id \in DOMAIN o : o[id] = "ok"}) <= MaxOpens
    /\ Returns(reset_logs(World, [id \in Ids(logfiles) |-> OutcomeOf(o, id)]),
               "reset_logs", 0, 0)

Call_close_temp_logs == Returns(close_temp_logs(World), "close_temp_logs", 0, 0)

Call_mark_logs_temp == Returns(mark_logs_temp(World), "mark_logs_temp", 0, 0)

Call_get_min_log_level ==
  Returns(World, "get_min_log_level", get_min_log_level(World), 0)

Next ==
  \/ Call_add_stream_log
  \/ Call_add_temp_log
  \/ Call_add_callback_log
  \/ Call_add_file_log
  \/ Call_add_syslog_log
  \/ Call__log
  \/ Call__log_fn
  \/ Call_close_logs
  \/ Call_reset_logs
  \/ Call_close_temp_logs
  \/ Call_mark_logs_temp
  \/ Call_get_min_log_level

Spec == Init /\ [][Next]_vars

-----------------------------------------------------------------------------
(* Log files and their rotation.  Between two calls a program outside the  *)
(* process may empty a log file (log rotation by truncation); the next     *)
(* ftello on a stream opened for append then reads 0.                      *)
Truncate ==
  \E path \in Paths :
    /\ has_data[path]
    /\ has_data' = [has_data EXCEPT ![path] = FALSE]
    /\ last' = [op |-> "truncate", ret |-> 0, severity |-> 0, calls |-> <<>>]
    /\ mark' = NoMark
    /\ UNCHANGED <<logfiles, syslog_count, syslog_open, streams, allocs,
                   frames, fault>>

NextFiles ==
  \/ Call_add_file_log
  \/ Call_add_stream_log
  \/ Call__log
  \/ Call_reset_logs
  \/ Call_mark_logs_temp
  \/ Call_close_logs
  \/ Truncate

SpecFiles == Init /\ [][NextFiles]_vars

-----------------------------------------------------------------------------
(* The bytes of a record.  A C string is a sequence of one-character       *)
(* strings; a buffer is a sequence of BufSize of them, the character at C  *)
(* offset k standing at position k + 1.  NUL is the terminator; a          *)
(* character of the array that nothing has written yet is Junk.            *)
NUL == "NUL"
Junk == "?"
NL == "\n"

BufSize == 64    \* stands for sizeof(buf) in logv, log.c:152
MaxText == 48    \* longest text the caller's format renders to

TRUNCATED_STR ==
  <<"[", ".", ".", ".", "t", "r", "u", "n", "c", "a", "t", "e", "d", "]">>
TRUNCATED_STR_LEN == 14

Chars(str) ==
  CASE str = "err"    -> <<"e", "r", "r">>
    [] str = "warn"   -> <<"w", "a", "r", "n">>
    [] str = "notice" -> <<"n", "o", "t", "i", "c", "e">>
    [] str = "info"   -> <<"i", "n", "f", "o">>
    [] str = "debug"  -> <<"d", "e", "b", "u", "g">>
    [] str = "error"  -> <<"e", "r", "r", "o", "r">>
    [] str = "fn"     -> <<"f", "n">>
    [] str = "UNKNOWN" -> <<"U", "N", "K", "N", "O", "W", "N">>

Min(a, b) == IF a < b THEN a ELSE b

Poke(buf, at, chars) ==
  [i \in 1..Len(buf) |->
     IF i - 1 >= at /\ i - 1 < at + Len(chars) THEN chars[i - at] ELSE buf[i]]

strlen(buf) ==
  (CHOOSE i \in 1..Len(buf) :
      buf[i] = NUL /\ \A j \in 1..(i - 1) : buf[j] # NUL) - 1

(* The string that starts at offset `from` of buf.                         *)
CString(buf, from) ==
  LET rest == SubSeq(buf, from + 1, Len(buf)) IN SubSeq(rest, 1, strlen(rest))

(* tor_snprintf and tor_vsnprintf (util.c): render `chars` at buf + at     *)
(* into `size` bytes.  Nothing is written for size 0; else at most         *)
(* size - 1 characters and a NUL; the result is the length written, or -1  *)
(* when the text did not fit.                                              *)
tor_vsnprintf(buf, at, size, chars) ==
  IF size = 0 THEN [buf |-> buf, r |-> -1]
  ELSE LET k == Min(Len(chars), size - 1) IN
       [buf |-> Poke(buf, at, SubSeq(chars, 1, k) \o <<NUL>>),
        r |-> IF Len(chars) >= size THEN -1 ELSE Len(chars)]

tor_snprintf(buf, at, size, chars) == tor_vsnprintf(buf, at, size, chars)

(* strlcpy(buf + at, src, size).                                           *)
strlcpy(buf, at, src, size) ==
  IF size = 0 THEN buf
  ELSE Poke(buf, at, SubSeq(src, 1, Min(Len(src), size - 1)) \o <<NUL>>)

(* strftime(buf, buf_len, "%b %d %H:%M:%S", ...): fifteen characters and a *)
(* NUL if they fit, else 0 and nothing the caller may rely on.             *)
Timestamp ==
  <<"J", "a", "n", " ", "0", "1", " ", "0", "0", ":", "0", "0", ":", "0", "0">>

strftime(buf, buf_len) ==
  IF Len(Timestamp) < buf_len
    THEN [buf |-> Poke(buf, 0, Timestamp \o <<NUL>>), n |-> Len(Timestamp)]
    ELSE [buf |-> buf, n |-> 0]

(* _log_prefix, log.c:57-76, on the bytes.                                 *)
_log_prefix_bytes(buf, buf_len, severity) ==
  LET T == strftime(buf, buf_len)
      R == tor_snprintf(T.buf, T.n, buf_len - T.n,
                        <<".", "0", "0", "0", " ", "[">>
                          \o Chars(sev_to_string(severity)) \o <<"]", " ">>)
  IN [buf |-> R.buf, n |-> IF R.r < 0 THEN buf_len - 1 ELSE T.n + R.r]

(* format_msg, log.c:112-143, on the bytes: buf0 is the array as logv      *)
(* declares it, size its sizeof, text what format and ap render to.        *)
format_msg_bytes(buf0, size, severity, funcname, text) ==
  LET buf_len == size - 2
      P == _log_prefix_bytes(buf0, buf_len, severity)
      F == IF funcname # NoFunc
             THEN LET S == tor_snprintf(P.buf, P.n, buf_len - P.n,
                                        Chars(funcname) \o <<"(", ")", ":", " ">>)
                  IN [buf |-> S.buf,
                      n |-> IF S.r < 0 THEN strlen(S.buf) ELSE P.n + S.r]
             ELSE P
      V == tor_vsnprintf(F.buf, F.n, buf_len - F.n, text)
      n == IF V.r < 0 THEN buf_len - 2 ELSE F.n + V.r
      B == IF V.r < 0
             THEN strlcpy(V.buf, buf_len - TRUNCATED_STR_LEN - 1, TRUNCATED_STR,
                          buf_len - (buf_len - TRUNCATED_STR_LEN - 1))
             ELSE V.buf
  IN [buf |-> Poke(B, n, <<NL, NUL>>), end_of_prefix |-> P.n,
      overflow |-> V.r < 0]

(* char buf[10024] of logv, before anything is written to it.              *)
FreshBuf == [i \in 1..BufSize |-> Junk]

Texts == {[i \in 1..len |-> "x"] : len \in 0..MaxText}

(* A call of one of the functions below, about to be made: the function   *)
(* and its arguments.                                                      *)
Calling(name, severity, arg) ==
  [op |-> "call", ret |-> 0, severity |-> severity,
   calls |-> <<Call(name, NULL, NULL, TRUE, arg)>>]

IsCalling(name) == last.op = "call" /\ last.calls[1].call = name

Call_format_msg ==
  LET severity == last.severity
      funcname == last.calls[1].arg.fn
      text == last.calls[1].arg.text
      R == format_msg_bytes(FreshBuf, BufSize, severity, funcname, text) IN
    /\ IsCalling("format_msg")
    /\ last' = [op |-> "format_msg", ret |-> R.end_of_prefix,
                severity |-> severity,
                calls |-> <<Call("format_msg", NULL, NULL, TRUE,
                                 [buf |-> R.buf, overflow |-> R.overflow,
                                  fn |-> funcname, text |-> text])>>]
    /\ mark' = NoMark
    /\ UNCHANGED <<logfiles, syslog_count, syslog_open, streams, has_data,
                   allocs, frames, fault>>

(* Severity names.  strcasecmp compares after tolower and is 0 for equal   *)
(* strings; the code only asks whether it is 0.                            *)
UpperCase ==
  <<"A", "B", "C", "D", "E", "F", "G", "H", "I", "J", "K", "L", "M",
    "N", "O", "P", "Q", "R", "S", "T", "U", "V", "W", "X", "Y", "Z">>
LowerCase ==
  <<"a", "b", "c", "d", "e", "f", "g", "h", "i", "j", "k", "l", "m",
    "n", "o", "p", "q", "r", "s", "t", "u", "v", "w", "x", "y", "z">>

tolower(c) ==
  IF \E i \in 1..Len(UpperCase) : UpperCase[i] = c
    THEN LowerCase[CHOOSE i \in 1..Len(UpperCase) : UpperCase[i] = c]
    ELSE c

strcasecmp(a, b) ==
  IF Len(a) = Len(b) /\ \A i \in 1..Len(a) : tolower(a[i]) = tolower(b[i])
    THEN 0 ELSE 1

strcmp(a, b) == IF a = b THEN 0 ELSE 1

(* A parse_log_level that compares with strcmp.                            *)
parse_log_level_exact(level) ==
  IF strcmp(level, Chars("err")) = 0 THEN LOG_ERR
  ELSE IF strcmp(level, Chars("warn")) = 0 THEN LOG_WARN
  ELSE IF strcmp(level, Chars("notice")) = 0 THEN LOG_NOTICE
  ELSE IF strcmp(level, Chars("info")) = 0 THEN LOG_INFO
  ELSE IF strcmp(level, Chars("debug")) = 0 THEN LOG_DEBUG
  ELSE -1

(* parse_log_level, log.c:390-402.                                         *)
parse_log_level(level) ==
  IF strcasecmp(level, Chars("err")) = 0 THEN LOG_ERR
  ELSE IF strcasecmp(level, Chars("warn")) = 0 THEN LOG_WARN
  ELSE IF strcasecmp(level, Chars("notice")) = 0 THEN LOG_NOTICE
  ELSE IF strcasecmp(level, Chars("info")) = 0 THEN LOG_INFO
  ELSE IF strcasecmp(level, Chars("debug")) = 0 THEN LOG_DEBUG
  ELSE -1

(* log_level_to_string, log.c:404-407.                                     *)
log_level_to_string(level) == sev_to_string(level)

(* The names callers pass: the names of the code, "error", some of them    *)
(* in capitals, near misses, and every string of up to MaxNameLen          *)
(* characters over a small alphabet.                                       *)
MaxNameLen == 3
NameAlphabet == {"e", "r", "E", "R", "x"}
ShortNames ==
  UNION {[1..len -> NameAlphabet] : len \in 0..MaxNameLen}
LevelNames ==
  {Chars("err"), Chars("warn"), Chars("notice"), Chars("info"),
   Chars("debug"), Chars("error"), Chars("UNKNOWN"),
   <<"W", "A", "R", "N">>, <<"N", "o", "t", "i", "c", "e">>,
   <<"I", "n", "f", "O">>, <<"D", "E", "B", "U", "G">>,
   <<"w", "a", "r", "n", "i", "n", "g">>, <<"i", "n", "f">>,
   <<"d", "e", "b", "u", "g", " ">>, <<"3">>}
    \cup ShortNames

Call_parse_log_level ==
  LET level == last.calls[1].arg IN
    /\ IsCalling("parse_log_level")
    /\ last' = [op |-> "parse_log_level", ret |-> parse_log_level(level),
                severity |-> 0,
                calls |-> <<Call("strcasecmp", NULL, NULL, TRUE, level)>>]
    /\ mark' = NoMark
    /\ UNCHANGED <<logfiles, syslog_count, syslog_open, streams, has_data,
                   allocs, frames, fault>>

Call_log_level_to_string ==
  LET level == last.severity IN
    /\ IsCalling("log_level_to_string")
    /\ last' = [op |-> "log_level_to_string",
                ret |-> log_level_to_string(level),
                severity |-> level, calls |-> <<>>]
    /\ mark' = NoMark
    /\ UNCHANGED <<logfiles, syslog_count, syslog_open, streams, has_data,
                   allocs, frames, fault>>

NextPure ==
  \/ Call_format_msg
  \/ Call_parse_log_level
  \/ Call_log_level_to_string

InitPure ==
  /\ logfiles = <<>>
  /\ syslog_count = 0
  /\ syslog_open = FALSE
  /\ streams = <<[path |-> "<stdout>", mode |-> "w", owner |-> NULL, closes |-> 0]>>
  /\ has_data = [p \in Paths |-> FALSE]
  /\ allocs = <<>>
  /\ mark = NoMark
  /\ frames = <<>>
  /\ fault = {}
  /\ \/ \E severity \in Severities, funcname \in FuncNames \cup {NoFunc},
           text \in Texts :
           last = Calling("format_msg", severity, [fn |-> funcname, text |-> text])
     \/ \E level \in LevelNames :
           last = Calling("parse_log_level", 0, level)
     \/ \E level \in Severities :
           last = Calling("log_level_to_string", level, <<>>)

SpecPure == InitPure /\ [][NextPure]_vars

-----------------------------------------------------------------------------
(* What the claims speak of.                                               *)
IsDispatch(op) == op \in {"_log", "_log_fn"}

IsDelivery(c) == c.call \in {"syslog", "callback", "fputs"}

Positions(calls, name) == {k \in 1..Len(calls) : calls[k].call = name}

DeliveryPositions(calls) == {k \in 1..Len(calls) : IsDelivery(calls[k])}

DeliveredTo(calls) == {calls[k].id : k \in DeliveryPositions(calls)}

FailedIds(calls) == {calls[k].id : k \in {j \in 1..Len(calls) : ~calls[j].ok}}

InBand(s, lf) == lf.max_loglevel <= s /\ s <= lf.loglevel

Live(lf) == lf.file # NULL \/ lf.is_syslog \/ lf.callback # NULL

Without(L, ids) == SelectSeq(L, LAMBDA lf : lf.id \notin ids)

C2_FailedWriteRemovesOnlyThatSink ==
  [][IsDispatch(last'.op) =>
      LET failed == FailedIds(last'.calls) IN
      /\ logfiles' = Without(logfiles, failed)
      /\ \A i \in 1..Len(logfiles) :
           (Live(logfiles[i]) /\ InBand(last'.severity, logfiles[i]))
             => logfiles[i].id \in DeliveredTo(last'.calls)
      /\ \A k \in DeliveryPositions(last'.calls) :
           last'.calls[k].call # "fputs" => last'.calls[k].ok
      /\ last'.ret = 0
    ]_vars

(* A dispatch in which a write failed between two deliveries to handlers   *)
(* that are still registered.                                              *)
C2_Witness ==
  /\ IsDispatch(last.op)
  /\ \E a, b, c \in DeliveryPositions(last.calls) :
       /\ a < b /\ b < c
       /\ ~last.calls[b].ok
       /\ last.calls[a].ok /\ last.calls[c].ok
       /\ last.calls[b].id \notin Ids(logfiles)
       /\ {last.calls[a].id, last.calls[c].id} \subseteq Ids(logfiles)

(* C3: every handler that has left the list has had its resources released *)
(* exactly once: the FILE it owned was fclosed once, the syslog reference  *)
(* of a syslog handler was decremented once.                               *)
C3_ReleasedExactlyOnce ==
  /\ \A f \in 1..Len(streams) :
       (streams[f].owner # NULL /\ streams[f].owner \notin Ids(logfiles))
         => streams[f].closes = 1
  /\ \A id \in 1..Len(allocs) :
       (allocs[id].is_syslog /\ id \notin Ids(logfiles)) => allocs[id].decs = 1

(* C4: close_logs, from any reachable state, leaves the list empty, has    *)
(* fclosed once every FILE owned by a handler that was in the list, and    *)
(* leaves syslog_count at zero with the facility closed.                   *)
C4_CloseLogsReleasesAll ==
  [][last'.op = "close_logs" =>
      /\ logfiles' = <<>>
      /\ \A i \in 1..Len(logfiles) :
           (logfiles[i].needs_close /\ logfiles[i].file # NULL)
             => /\ streams'[logfiles[i].file].closes = 1
                /\ \E k \in Positions(last'.calls, "fclose") :
                     last'.calls[k].file = logfiles[i].file
      /\ syslog_count' = 0
      /\ ~syslog_open'
    ]_vars

(* A close_logs that closed a file and the syslog facility.                *)
C4_Witness ==
  /\ last.op = "close_logs"
  /\ Positions(last.calls, "fclose") # {}
  /\ Positions(last.calls, "closelog") # {}
  /\ Cardinality(Positions(last.calls, "free")) >= 3

(* C5 as stated: every dispatch calls format_msg exactly once, whatever    *)
(* the number of handlers, zero included.                                  *)
C5_FormatsExactlyOnce ==
  IsDispatch(last.op) => Cardinality(Positions(last.calls, "format_msg")) = 1

(* C5 as amended: a dispatch calls format_msg once if some registered      *)
(* handler is in band and has a live target, and not at all otherwise (no  *)
(* handler, or none that takes the message).                               *)
C5_FormatsOnceIfDelivered ==
  [][IsDispatch(last'.op) =>
      Cardinality(Positions(last'.calls, "format_msg")) =
        IF \E i \in 1..Len(logfiles) :
             Live(logfiles[i]) /\ InBand(last'.severity, logfiles[i])
          THEN 1 ELSE 0
    ]_vars

(* A dispatch that delivered to three handlers and formatted once.         *)
C5_Witness ==
  /\ IsDispatch(last.op)
  /\ Cardinality(DeliveryPositions(last.calls)) >= 3
  /\ Cardinality(Positions(last.calls, "format_msg")) = 1

(* C6: in one dispatch format_msg is called at most once; when it is, it   *)
(* is the first thing the call does, right before the delivery to the      *)
(* first handler in band with a live target; every delivery of the call    *)
(* passes that one record (fputs the whole of it, syslog and the callback  *)
(* the part after the prefix), also the deliveries that follow the removal *)
(* of a handler whose write failed.                                        *)
FirstTaker(L, s) ==
  LET takers == {i \in 1..Len(L) : Live(L[i]) /\ InBand(s, L[i])}
  IN L[CHOOSE i \in takers : \A j \in takers : i <= j].id

C6_FormatsAtFirstMatch ==
  [][IsDispatch(last'.op) =>
      LET calls == last'.calls
          F == Positions(calls, "format_msg")
          D == DeliveryPositions(calls)
      IN /\ Cardinality(F) <= 1
         /\ D # {} => F # {}
         /\ \A k \in F :
              /\ k = 1
              /\ 2 \in D
              /\ calls[2].id = FirstTaker(logfiles, last'.severity)
              /\ \A d \in D :
                   calls[d].arg = IF calls[d].call = "fputs"
                                    THEN calls[k].arg
                                    ELSE [calls[k].arg EXCEPT !.prefix = <<>>]
    ]_vars

(* A dispatch whose first delivery failed, was followed by the removal of  *)
(* the handler, and then by a delivery to another handler.                 *)
C6_Witness ==
  /\ IsDispatch(last.op)
  /\ Len(last.calls) >= 4
  /\ last.calls[1].call = "format_msg"
  /\ last.calls[2].call = "fputs" /\ ~last.calls[2].ok
  /\ last.calls[3].call = "free"
  /\ IsDelivery(last.calls[4])

(* The handler with address id in list L.                                  *)
Sink(L, id) == L[CHOOSE i \in 1..Len(L) : L[i].id = id]

(* C7 as stated: mark_logs_temp, then registrations only, then             *)
(* close_temp_logs: every handler that was in the list at the mark is      *)
(* gone, and every handler registered after the mark is still in the list, *)
(* unchanged.                                                              *)
C7_MarkThenCloseKeepsAllLater ==
  [][(last'.op = "close_temp_logs" /\ mark.phase = "marked") =>
      /\ mark.at \cap Ids(logfiles') = {}
      /\ \A id \in mark.added \cup mark.added_temp :
           /\ id \in Ids(logfiles')
           /\ Sink(logfiles', id) = Sink(logfiles, id)
    ]_vars

(* C7 as amended: every handler that was in the list at the mark is gone;  *)
(* every handler registered after the mark by add_stream_log,              *)
(* add_file_log, add_callback_log or add_syslog_log is still in the list,  *)
(* unchanged, in the same order, its FILE not closed; a handler registered *)
(* after the mark by add_temp_log is temporary itself and is gone too.     *)
C7_MarkThenCloseKeepsLaterNonTemp ==
  [][(last'.op = "close_temp_logs" /\ mark.phase = "marked") =>
      /\ mark.at \cap Ids(logfiles') = {}
      /\ mark.added_temp \cap Ids(logfiles') = {}
      /\ logfiles' = SelectSeq(logfiles, LAMBDA lf : lf.id \in mark.added)
      /\ \A id \in mark.added :
           /\ id \in Ids(logfiles')
           /\ Sink(logfiles', id) = Sink(logfiles, id)
           /\ Sink(logfiles, id).file # NULL =>
                streams'[Sink(logfiles, id).file] = streams[Sink(logfiles, id).file]
      /\ syslog_count' =
           Cardinality({id \in Ids(logfiles') : Sink(logfiles', id).is_syslog})
    ]_vars

(* A close_temp_logs after a mark with two handlers at the mark and one    *)
(* registered after it, which is still there.                              *)
C7_Witness ==
  /\ last.op = "close_temp_logs"
  /\ mark.phase = "closed"
  /\ Cardinality(mark.at) >= 2
  /\ mark.added # {}
  /\ mark.added \subseteq Ids(logfiles)

(* C8: close_temp_logs removes exactly the handlers flagged is_temporary   *)
(* and releases each (an owned FILE fclosed, a syslog reference            *)
(* decremented); the handlers not flagged stay, with every field as it     *)
(* was, in the same order, their streams untouched.                        *)
C8_CloseTempRemovesExactlyTemp ==
  [][last'.op = "close_temp_logs" =>
      LET temp == {i \in 1..Len(logfiles) : logfiles[i].is_temporary}
          kept == {i \in 1..Len(logfiles) : ~logfiles[i].is_temporary}
          tsys == {i \in temp : logfiles[i].is_syslog}
      IN /\ logfiles' = SelectSeq(logfiles, LAMBDA lf : ~lf.is_temporary)
         /\ \A i \in temp :
              /\ (logfiles[i].needs_close /\ logfiles[i].file # NULL) =>
                   streams'[logfiles[i].file].closes =
                     streams[logfiles[i].file].closes + 1
              /\ logfiles[i].is_syslog =>
                   allocs'[logfiles[i].id].decs = allocs[logfiles[i].id].decs + 1
         /\ syslog_count' = syslog_count - Cardinality(tsys)
         /\ syslog_open' = (syslog_open /\ syslog_count' > 0)
         /\ \A i \in kept :
              /\ logfiles[i].file # NULL =>
                   streams'[logfiles[i].file] = streams[logfiles[i].file]
              /\ allocs'[logfiles[i].id] = allocs[logfiles[i].id]
    ]_vars

(* A close_temp_logs that closed a file and left two handlers.             *)
C8_Witness ==
  /\ last.op = "close_temp_logs"
  /\ Positions(last.calls, "fclose") # {}
  /\ Len(logfiles) >= 2

(* C9: after reset_logs every handler that owned a FILE either holds a     *)
(* fresh FILE opened for append on its own filename (fclose and fopen      *)
(* succeeded) or is gone from the list (fclose or fopen failed); no        *)
(* handler in the list has an owned FILE that is closed or NULL; handlers  *)
(* that own no FILE are unchanged; the survivors keep their order.         *)
C9_ResetReopensOrRemoves ==
  [][last'.op = "reset_logs" =>
      LET failed == FailedIds(last'.calls) IN
      /\ Len(logfiles') = Len(Without(logfiles, failed))
      /\ \A n \in 1..Len(logfiles') :
           LET old == Without(logfiles, failed)[n]
               new == logfiles'[n]
           IN IF old.needs_close
                THEN /\ new = [old EXCEPT !.file = new.file]
                     /\ new.file > Len(streams)
                     /\ streams'[new.file] =
                          [path |-> old.filename, mode |-> "a",
                           owner |-> old.id, closes |-> 0]
                     /\ streams'[old.file].closes = 1
                ELSE /\ new = old
                     /\ old.file # NULL => streams'[old.file] = streams[old.file]
      /\ \A i \in 1..Len(logfiles) :
           logfiles[i].id \in failed => logfiles[i].needs_close
      /\ \A n \in 1..Len(logfiles') :
           logfiles'[n].needs_close =>
             /\ logfiles'[n].file # NULL
             /\ streams'[logfiles'[n].file].closes = 0
      /\ syslog_count' = syslog_count
    ]_vars

(* A reset_logs that reopened one file, lost another, and left a handler   *)
(* that owns no FILE.                                                      *)
C9_Witness ==
  /\ last.op = "reset_logs"
  /\ \E k \in Positions(last.calls, "fopen") : last.calls[k].ok
  /\ FailedIds(last.calls) # {}
  /\ Len(logfiles) >= 2
  /\ \E i \in 1..Len(logfiles) : ~logfiles[i].needs_close

(* C10: when fopen fails in add_file_log the call returns -1 and the list, *)
(* the syslog count and the set of streams are as before the call.         *)
C10_OpenFailureChangesNothing ==
  [][(last'.op = "add_file_log" /\ FailedIds(last'.calls) # {}) =>
      /\ last'.ret = -1
      /\ logfiles' = logfiles
      /\ syslog_count' = syslog_count
      /\ syslog_open' = syslog_open
      /\ streams' = streams
      /\ allocs' = allocs
    ]_vars

(* A failed add_file_log with a syslog handler and another one registered. *)
C10_Witness ==
  /\ last.op = "add_file_log"
  /\ last.ret = -1
  /\ Len(logfiles) >= 2
  /\ syslog_count >= 1

(* C11: syslog_count is the number of syslog handlers in the list, after   *)
(* every operation; the facility is open exactly when there is one;        *)
(* openlog is called only by an operation that finds the count at 0 and    *)
(* leaves it at 1, closelog only by one that brings the count down to 0,   *)
(* and each at most once per operation.                                    *)
SyslogSinks(L) == {i \in 1..Len(L) : L[i].is_syslog}

SyslogCounted ==
  /\ syslog_count = Cardinality(SyslogSinks(logfiles))
  /\ syslog_open = (Cardinality(SyslogSinks(logfiles)) > 0)

C11_SyslogRefCounted ==
  /\ SyslogCounted
  /\ [][/\ SyslogCounted'
        /\ Cardinality(Positions(last'.calls, "openlog")) =
             IF syslog_count = 0 /\ syslog_count' > 0 THEN 1 ELSE 0
        /\ Positions(last'.calls, "openlog") # {} => syslog_count' = 1
        /\ Cardinality(Positions(last'.calls, "closelog")) =
             IF syslog_count > 0 /\ syslog_count' = 0 THEN 1 ELSE 0
       ]_vars

(* Two syslog handlers were registered and both are gone; the last         *)
(* operation called closelog.                                              *)
C11_Witness ==
  /\ Cardinality({id \in 1..Len(allocs) : allocs[id].is_syslog}) >= 2
  /\ \A id \in 1..Len(allocs) : allocs[id].is_syslog => allocs[id].decs = 1
  /\ Positions(last.calls, "closelog") # {}
  /\ syslog_count = 0 /\ ~syslog_open

(* C14: get_min_log_level changes nothing and returns the largest loglevel *)
(* of the handlers in the list, LOG_ERR when the list is empty; a dispatch *)
(* at a severity above that value, and so the dispatch that follows a      *)
(* get_min_log_level at a severity above what it returned, makes no        *)
(* delivery.                                                               *)
Loglevels(L) == {L[i].loglevel : i \in 1..Len(L)}

LargestLoglevel(L) ==
  IF L = <<>> THEN LOG_ERR
  ELSE CHOOSE m \in Loglevels(L) : \A l \in Loglevels(L) : l <= m

C14_MinLogLevelIsLargestBound ==
  [][/\ last'.op = "get_min_log_level" =>
          /\ last'.ret = LargestLoglevel(logfiles)
          /\ UNCHANGED <<logfiles, syslog_count, syslog_open, streams,
                         has_data, allocs>>
          /\ last'.calls = <<>>
     /\ (IsDispatch(last'.op) /\ last'.severity > LargestLoglevel(logfiles))
          => DeliveryPositions(last'.calls) = {}
     /\ (last.op = "get_min_log_level" /\ IsDispatch(last'.op)
           /\ last'.severity > last.ret)
          => DeliveryPositions(last'.calls) = {}
    ]_vars

(* get_min_log_level answered from a list whose head does not hold the     *)
(* largest loglevel, with a live handler that a dispatch at the value      *)
(* returned reaches; a dispatch one above it is possible.                  *)
C14_Witness ==
  /\ last.op = "get_min_log_level"
  /\ Len(logfiles) >= 2
  /\ logfiles[1].loglevel < last.ret
  /\ \E i \in 1..Len(logfiles) :
       Live(logfiles[i]) /\ InBand(last.ret, logfiles[i])
  /\ last.ret + 1 \in Severities

(* C15: the stream a caller hands in (add_stream_log, and stdout of        *)
(* add_temp_log) is never fclosed and never replaced: no operation changes *)
(* the stream or names it in an fclose or fopen, a handler that does not   *)
(* own its stream keeps the same stream for as long as it is in the list,  *)
(* and close_logs and close_temp_logs remove such handlers all the same.   *)
Borrowed(lf) == lf.file # NULL /\ ~lf.needs_close

C15_CallerStreamNeverClosed ==
  /\ streams[STDOUT].closes = 0
  /\ [][/\ streams'[STDOUT] = streams[STDOUT]
        /\ \A k \in Positions(last'.calls, "fclose") \cup
                    Positions(last'.calls, "fopen") :
             last'.calls[k].file # STDOUT
        /\ \A i \in 1..Len(logfiles) :
             (Borrowed(logfiles[i]) /\ logfiles[i].id \in Ids(logfiles'))
               => /\ Sink(logfiles', logfiles[i].id).file = logfiles[i].file
                  /\ Borrowed(Sink(logfiles', logfiles[i].id))
        /\ last'.op = "close_logs" => logfiles' = <<>>
        /\ last'.op = "close_temp_logs" =>
             \A i \in 1..Len(logfiles') : ~logfiles'[i].is_temporary
       ]_vars

(* close_logs has freed a handler that held stdout and closed the file of  *)
(* another, and stdout is still open.                                      *)
C15_Witness ==
  /\ last.op = "close_logs"
  /\ \E k \in Positions(last.calls, "free") : last.calls[k].file = STDOUT
  /\ Positions(last.calls, "fclose") # {}
  /\ streams[STDOUT].closes = 0

(* C16: a registration that succeeds puts the new handler at the head of   *)
(* the list and leaves the rest as it was; the deliveries of one dispatch  *)
(* follow the order of the list, head (the latest registered) first, no    *)
(* handler gets more than one, and all of them carry the same record.      *)
AllRegistrations == Registrations \cup {"add_temp_log"}

PositionOf(L, id) == CHOOSE i \in 1..Len(L) : L[i].id = id

C16_PrependAndVisitInOrder ==
  [][/\ (last'.op \in AllRegistrations /\ last'.ret = 0) =>
          /\ logfiles' # <<>>
          /\ Tail(logfiles') = logfiles
          /\ Head(logfiles').id \notin Ids(logfiles)
          /\ Head(logfiles').id = Len(allocs')
     /\ IsDispatch(last'.op) =>
          LET calls == last'.calls
              D == DeliveryPositions(calls)
          IN /\ \A a \in D : calls[a].id \in Ids(logfiles)
             /\ \A a, b \in D :
                  a < b => PositionOf(logfiles, calls[a].id) <
                             PositionOf(logfiles, calls[b].id)
             /\ \A a, b \in D :
                  /\ end_of_prefix(calls[a].arg) = end_of_prefix(calls[b].arg)
                  /\ (calls[a].call = "fputs" /\ calls[b].call = "fputs")
                       => calls[a].arg = calls[b].arg
    ]_vars

(* A dispatch that delivered to three handlers of three kinds, the latest  *)
(* registered first.                                                       *)
C16_Witness ==
  /\ IsDispatch(last.op)
  /\ Len(logfiles) = 3
  /\ logfiles[1].id > logfiles[2].id /\ logfiles[2].id > logfiles[3].id
  /\ \E a, b, c \in DeliveryPositions(last.calls) :
       /\ a < b /\ b < c
       /\ last.calls[a].id = logfiles[1].id
       /\ last.calls[b].id = logfiles[2].id
       /\ last.calls[c].id = logfiles[3].id
       /\ Cardinality({last.calls[a].call, last.calls[b].call,
                       last.calls[c].call}) = 3

(* C19: with calls made one after the other and callbacks that return      *)
(* without calling back, after every operation each handler in the list    *)
(* that has a stream has one that was never fclosed, a handler that owns   *)
(* its stream (needs_close) has a stream, and no stream has been fclosed   *)
(* twice; every fputs of a dispatch and every banner goes to a stream      *)
(* that is open, and every fclose is the first of its stream.              *)
HandlesOpen(L, S) ==
  /\ \A i \in 1..Len(L) :
       /\ L[i].needs_close => L[i].file # NULL
       /\ L[i].file # NULL => S[L[i].file].closes = 0
  /\ \A f \in 1..Len(S) : S[f].closes <= 1

C19_RegisteredFilesAreOpen ==
  /\ HandlesOpen(logfiles, streams)
  /\ [][/\ HandlesOpen(logfiles', streams')
        /\ \A k \in Positions(last'.calls, "fputs") :
             /\ last'.calls[k].file \in 1..Len(streams)
             /\ streams[last'.calls[k].file].closes = 0
             /\ streams'[last'.calls[k].file].closes = 0
        /\ \A k \in Positions(last'.calls, "banner") :
             streams'[last'.calls[k].file].closes = 0
        /\ \A k \in Positions(last'.calls, "fclose") :
             /\ streams[last'.calls[k].file].closes = 0
             /\ streams'[last'.calls[k].file].closes = 1
       ]_vars

(* A dispatch wrote to the stream that reset_logs opened for a handler     *)
(* whose earlier stream is closed, and there is a stream whose handler has *)
(* left the list.                                                          *)
C19_Witness ==
  /\ IsDispatch(last.op)
  /\ \E k \in Positions(last.calls, "fputs") :
       /\ last.calls[k].ok
       /\ last.calls[k].file > STDOUT
       /\ streams[last.calls[k].file].closes = 0
       /\ \E g \in 1..Len(streams) :
            /\ streams[g].closes = 1
            /\ streams[g].owner = last.calls[k].id
  /\ \E g \in 1..Len(streams) :
       /\ streams[g].owner # NULL
       /\ streams[g].owner \notin Ids(logfiles)

BannersOf(calls, id) == {k \in Positions(calls, "banner") : calls[k].id = id}

Reopened(calls, id) ==
  \E k \in Positions(calls, "fopen") : calls[k].id = id /\ calls[k].ok

PathOf(lf) == lf.filename

EmptyWhenReached(calls, lf) ==
  /\ ~has_data[PathOf(lf)]
  /\ \A k \in Positions(calls, "banner") :
       (streams'[calls[k].file].path = PathOf(lf)) => calls[k].id = lf.id

Rendered == CString(last.calls[1].arg.buf, 0)

EndsWith(str, tail) ==
  /\ Len(str) >= Len(tail)
  /\ SubSeq(str, Len(str) - Len(tail) + 1, Len(str)) = tail

C12_TruncatedEndsWithWholeMarker ==
  (last.op = "format_msg" /\ last.calls[1].arg.overflow) =>
    /\ \E i \in 1..BufSize : last.calls[1].arg.buf[i] = NUL
    /\ EndsWith(Rendered, TRUNCATED_STR \o <<NL>>)
    /\ Cardinality({i \in 1..Len(Rendered) : Rendered[i] = NL}) = 1

(* C13 as stated: the names are error, warn, notice, info and debug: the   *)
(* name of every severity parses back to it, each of the five names parses *)
(* to a severity whose name it is, and every other name parses to -1.      *)
StatedNames ==
  {Chars("error"), Chars("warn"), Chars("notice"), Chars("info"),
   Chars("debug")}

C13_RoundTripStatedNames ==
  /\ last.op = "log_level_to_string" =>
       /\ Chars(last.ret) \in StatedNames
       /\ parse_log_level(Chars(last.ret)) = last.severity
  /\ last.op = "parse_log_level" =>
       IF last.calls[1].arg \in StatedNames
         THEN /\ last.ret \in Severities
              /\ Chars(log_level_to_string(last.ret)) = last.calls[1].arg
         ELSE last.ret = -1

(* C13 as amended: the names are err, warn, notice, info and debug: the    *)
(* name of every severity parses back to it; a name that is one of the     *)
(* five up to the case of its letters parses to the severity whose name    *)
(* is the name in lowercase; every other name parses to -1.                *)
CodeNames == {Chars(sev_to_string(s)) : s \in Severities}

Lowered(str) == [i \in 1..Len(str) |-> tolower(str[i])]

C13_RoundTripCodeNames ==
  /\ last.op = "log_level_to_string" =>
       /\ Chars(last.ret) \in CodeNames
       /\ parse_log_level(Chars(last.ret)) = last.severity
  /\ last.op = "parse_log_level" =>
       IF Lowered(last.calls[1].arg) \in CodeNames
         THEN /\ last.ret \in Severities
              /\ Chars(log_level_to_string(last.ret)) = Lowered(last.calls[1].arg)
         ELSE last.ret = -1

(* "Notice" has been parsed, to LOG_NOTICE.                                *)
C13_Witness ==
  /\ last.op = "parse_log_level"
  /\ last.calls[1].arg = <<"N", "o", "t", "i", "c", "e">>
  /\ last.ret = LOG_NOTICE

-----------------------------------------------------------------------------
(* logv followed step by step, log.c:149-195.  A frame is one logv call in *)
(* progress: its severity, its pointer lf (the id of a logfile_t, or       *)
(* NULL), the stream it has read from lf->file, and where it stands:       *)
(* "test" at the top of the loop, "deliver" after the handler has been     *)
(* found to take the message, "advance" at lf = lf->next.  Between two     *)
(* steps another execution context may run an operation of log.c, and the  *)
(* callback being called may call one itself.  log.c takes no lock.        *)
(*                                                                         *)
(* A logfile_t that has been freed is one whose id is no longer in the     *)
(* list.  Reading it is undefined: the pointer read from its `next` may be *)
(* NULL, any handler, or any freed handler; when the old contents are      *)
(* still there the write goes to the stream read before.                   *)
MaxDepth == 3    \* logv calls nested in one another that the stack holds

Frame(severity, lf) ==
  [severity |-> severity, lf |-> lf, pc |-> "test", file |-> NULL,
   formatted |-> FALSE]

HeadId(L) == IF L = <<>> THEN NULL ELSE Head(L).id

NextId(L, id) ==
  LET i == PositionOf(L, id) IN IF i < Len(L) THEN L[i + 1].id ELSE NULL

Top == frames[Len(frames)]
SetTop(f) == [frames EXCEPT ![Len(frames)] = f]
Pop == SubSeq(frames, 1, Len(frames) - 1)

Freed(id) == id \notin Ids(logfiles)
Dangling == 0..Len(allocs)

Stepped(W, op, F, faults) ==
  /\ logfiles' = W.logfiles
  /\ syslog_count' = W.syslog_count
  /\ syslog_open' = W.syslog_open
  /\ streams' = W.streams
  /\ has_data' = W.has_data
  /\ allocs' = W.allocs
  /\ last' = [op |-> op, ret |-> 0, severity |-> 0, calls |-> W.calls]
  /\ mark' = NoMark
  /\ frames' = F
  /\ fault' = fault \cup faults

StepSeverities == {LOG_WARN, LOG_DEBUG}

(* logv is entered: lf = logfiles.                                         *)
logv_enter ==
  /\ frames = <<>>
  /\ \E severity \in StepSeverities :
       Stepped(World, "logv", <<Frame(severity, HeadId(logfiles))>>, {})

(* while (lf), the two tests, and format_msg if the handler takes it.      *)
logv_test ==
  /\ frames # <<>>
  /\ Top.pc = "test"
  /\ IF Top.lf = NULL
       THEN Stepped(World, "logv_return", Pop, {})
     ELSE IF Freed(Top.lf)
       THEN \E p \in Dangling :
              Stepped(World, "logv_test", SetTop([Top EXCEPT !.lf = p]),
                      {"freed_sink"})
     ELSE LET lf == Sink(logfiles, Top.lf) IN
       IF ~Matches(Top.severity, lf) \/ ~HasTarget(lf)
         THEN Stepped(World, "logv_test",
                      SetTop([Top EXCEPT !.lf = NextId(logfiles, lf.id)]), {})
         ELSE Stepped(World, "logv_test",
                      SetTop([Top EXCEPT !.pc = "deliver", !.file = lf.file,
                                         !.formatted = TRUE]), {})

(* What a callback does before it returns.                                 *)
Inert == {"returns"}
Reentrant == {"returns", "close_logs", "close_temp_logs", "reset_logs", "_log"}

(* The delivery: syslog, the callback, or fputs and fflush.                *)
logv_deliver(behaviours) ==
  /\ frames # <<>>
  /\ Top.pc = "deliver"
  /\ IF Freed(Top.lf)
       THEN \/ Stepped(World, "logv_deliver", SetTop([Top EXCEPT !.pc = "advance"]),
                       {"freed_sink"} \cup
                         IF Top.file # NULL /\ streams[Top.file].closes > 0
                           THEN {"closed_handle"} ELSE {})
            \/ \E p \in Dangling :
                 Stepped(World, "logv_deliver",
                         SetTop([Top EXCEPT !.lf = p, !.pc = "test"]),
                         {"freed_sink"})
     ELSE LET lf == Sink(logfiles, Top.lf)
              on == SetTop([Top EXCEPT !.pc = "advance"])
          IN
       IF lf.is_syslog
         THEN Stepped(Emit(World, Call("syslog", lf.id, NULL, TRUE, NoBuf)),
                      "logv_deliver", on, {})
       ELSE IF lf.callback # NULL
         THEN \E b \in behaviours :
                CASE b = "returns" ->
                       Stepped(Emit(World, Call("callback", lf.id, NULL, TRUE, NoBuf)),
                               "logv_deliver", on, {})
                  [] b = "close_logs" ->
                       Stepped(close_logs(World), "callback", on, {})
                  [] b = "close_temp_logs" ->
                       Stepped(close_temp_logs(World), "callback", on, {})
                  [] b = "reset_logs" ->
                       \E o \in [Owned(logfiles) -> {"ok", "fopen_null"}] :
                         /\ Opens + Cardinality({id \in DOMAIN o : o[id] = "ok"})
                              <= MaxOpens
                         /\ Stepped(reset_logs(World, [id \in Ids(logfiles) |->
                                                         OutcomeOf(o, id)]),
                                    "callback", on, {})
                  [] b = "_log" ->
                       IF Len(frames) < MaxDepth
                         THEN Stepped(World, "callback",
                                      on \o <<Frame(Top.severity, HeadId(logfiles))>>,
                                      {})
                         ELSE Stepped(World, "callback", <<>>, {"stack_exhausted"})
       ELSE \E ok \in BOOLEAN :
              IF ok
                THEN Stepped(Written(Emit(World, Call("fputs", lf.id, lf.file,
                                                      TRUE, NoBuf)), lf),
                             "logv_deliver", on, {})
                ELSE Stepped(delete_log(Emit(World, Call("fputs", lf.id, lf.file,
                                                         FALSE, NoBuf)), lf),
                             "logv_deliver",
                             SetTop([Top EXCEPT !.lf = NextId(logfiles, lf.id),
                                                !.pc = "test"]), {})

logv_deliver_inert == logv_deliver(Inert)

logv_deliver_reentrant == logv_deliver(Reentrant)

(* lf = lf->next.                                                          *)
logv_advance ==
  /\ frames # <<>>
  /\ Top.pc = "advance"
  /\ IF Freed(Top.lf)
       THEN \E p \in Dangling :
              Stepped(World, "logv_advance",
                      SetTop([Top EXCEPT !.lf = p, !.pc = "test"]),
                      {"freed_link"})
       ELSE Stepped(World, "logv_advance",
                    SetTop([Top EXCEPT !.lf = NextId(logfiles, Top.lf),
                                       !.pc = "test"]), {})

(* One context is inside logv; the others register, rotate and shut down.  *)
NextConc ==
  \/ Call_add_stream_log
  \/ Call_add_file_log
  \/ Call_add_callback_log
  \/ Call_close_logs
  \/ Call_reset_logs
  \/ logv_enter
  \/ logv_test
  \/ logv_deliver_inert
  \/ logv_advance

SpecConc == Init /\ [][NextConc]_vars

(* One thread: registrations between the logv calls, and callbacks that    *)
(* call back into log.c.                                                   *)
NextReentry ==
  \/ frames = <<>> /\ Call_add_stream_log
  \/ frames = <<>> /\ Call_add_file_log
  \/ frames = <<>> /\ Call_add_callback_log
  \/ frames = <<>> /\ Call_mark_logs_temp
  \/ logv_enter
  \/ logv_test
  \/ logv_deliver_reentrant
  \/ logv_advance

SpecReentry == Init /\ [][NextReentry]_vars

(* C17: while other execution contexts run reset_logs and close_logs, a    *)
(* logv in progress never reads a logfile_t that has been freed, never     *)
(* follows the next of one, and never writes to a stream that has been     *)
(* fclosed.                                                                *)
C17_DispatchSerializedWithTeardown ==
  fault \cap {"freed_sink", "freed_link", "closed_handle"} = {}

(* C20: when a callback calls close_logs, close_temp_logs or reset_logs,   *)
(* the logv that called it goes on without touching a handler that was     *)
(* removed; when it calls _log at the same severity, the outer logv still  *)
(* returns.                                                                *)
C20_ReentrantCallbackIsSafe ==
  /\ "freed_link" \notin fault
  /\ "freed_sink" \notin fault
  /\ "stack_exhausted" \notin fault

====
